---- MODULE Spec2Model ----
(***************************************************************************)
(* State-machine model of helpers/models/sana/transformer.py:              *)
(* SanaTransformer2DModel (attention-processor introspection, gradient     *)
(* checkpointing policy, mask conversion, patchify/unpatchify shapes) and  *)
(* SanaTransformerBlock.                                                   *)
(*                                                                         *)
(* Module paths are sequences of names: f"{name}.{sub_name}" is            *)
(* Append(name, sub_name).  A Python dict is a TLA+ function whose DOMAIN  *)
(* is its key set.  Tensors are records [shape, data] with data in         *)
(* row-major order.  An optional tensor carries a flag "none".             *)
(***************************************************************************)
EXTENDS Integers, Sequences, FiniteSets, TLC

VARIABLES
    config,       \* constructor arguments registered by register_to_config
    processor,    \* Attention.processor of every attention module, by module path
    gradient_checkpointing,          \* SanaTransformer2DModel.gradient_checkpointing
    gradient_checkpointing_interval, \* SanaTransformer2DModel.gradient_checkpointing_interval
    block_gc,     \* per block: the attribute "gradient_checkpointing", if the block has one
    callerDict,   \* the dict object the caller handed to the last set_attn_processor
    lastSet,      \* record of the last set_attn_processor call
    lastRead,     \* the dict returned by the last read of attn_processors
    lastRun       \* record of the last forward call

vars == <<config, processor, gradient_checkpointing, gradient_checkpointing_interval,
          block_gc, callerDict, lastSet, lastRead, lastRun>>

---------------------------------------------------------------------------
\* Bounds of the model.

MaxLayers == 2
MaxAttnLayers == 1
NumProcs == 2
MaxBatch == 2
MaxDim == 4
MaxPatch == 2
MaxChannels == 2
MaxInterval == 2
MaxKeyTokens == 2

---------------------------------------------------------------------------
\* The module tree (nn.Module registration order).

IndexNames == <<"0", "1", "2", "3", "4", "5", "6", "7", "8", "9">>

\* Child names of SanaTransformerBlock in registration order.
BlockChildren ==
    IF config.cross_attention
        THEN <<"norm1", "attn1", "norm2", "attn2", "ff">>
        ELSE <<"norm1", "attn1", "ff">>

\* Child names of GLUMBConv in registration order (norm is None: norm_type=None).
GLUMBConvChildren == <<"nonlinearity", "conv_inverted", "conv_depth", "conv_point">>

\* Child names of SanaTransformer2DModel in registration order.
ModelChildren ==
    <<"patch_embed", "time_embed", "caption_projection", "caption_norm",
      "transformer_blocks", "norm_out", "proj_out">>

\* module.named_children() for the module at path `name`.
NamedChildren(name) ==
    IF name = <<>> THEN ModelChildren
    ELSE IF name = <<"transformer_blocks">>
        THEN [i \in 1..config.num_layers |-> IndexNames[i]]
    ELSE IF Len(name) = 2 /\ name[1] = "transformer_blocks" THEN BlockChildren
    ELSE IF Len(name) = 3 /\ name[1] = "transformer_blocks" /\ name[3] = "ff"
        THEN GLUMBConvChildren
    ELSE <<>>

\* hasattr(module, "get_processor") / hasattr(module, "set_processor"):
\* the Attention modules attn1 and attn2 of a block.
IsAttention(name) ==
    /\ Len(name) = 3
    /\ name[1] = "transformer_blocks"
    /\ name[3] \in {"attn1", "attn2"}

ProcessorKey(name) == Append(name, "processor")

---------------------------------------------------------------------------
\* attn_processors (property).

RECURSIVE fn_recursive_add_processors(_, _), AddChildren(_, _, _)

\* processors[f"{name}.processor"] = module.get_processor(), then the children.
fn_recursive_add_processors(name, processors) ==
    LET own == IF IsAttention(name)
                   THEN (ProcessorKey(name) :> processor[name]) @@ processors
                   ELSE processors
    IN AddChildren(name, NamedChildren(name), own)

AddChildren(name, subs, processors) ==
    IF subs = <<>> THEN processors
    ELSE AddChildren(name, Tail(subs),
             fn_recursive_add_processors(Append(name, Head(subs)), processors))

attn_processors == AddChildren(<<>>, ModelChildren, <<>>)

---------------------------------------------------------------------------
\* set_attn_processor.

\* A key that names no attention layer: a module path without ".processor".
ForeignKey == <<"transformer_blocks", "0", "attn1">>

\* Position of a key in the order the layers are visited (0: foreign).
KeyOrder(k) ==
    IF k = ForeignKey THEN 0
    ELSE LET i == CHOOSE j \in 1..Len(IndexNames) : IndexNames[j] = k[2]
         IN IF config.cross_attention
                THEN 2 * (i - 1) + (IF k[3] = "attn1" THEN 1 ELSE 2)
                ELSE i

\* Variant: the size is never checked.
SizeMismatch_NoCheck(arg, count) == FALSE

\* The guard of the ValueError: a dict whose size is not the layer count.
SizeMismatch(arg, count) ==
    arg.isDict /\ Cardinality(DOMAIN arg.dict) # count

\* Variant of the step below: the layer takes the dict's last entry
\* (processor.popitem()) instead of the entry under its own path.
SetProcessorStep_PopItem(name, arg, st) ==
    IF ~IsAttention(name) THEN st
    ELSE IF ~arg.isDict THEN [st EXCEPT !.proc[name] = arg.obj]
    ELSE IF ProcessorKey(name) \notin DOMAIN st.dict
        THEN [st EXCEPT !.raised = "KeyError"]
    ELSE LET last == CHOOSE k \in DOMAIN st.dict :
                         \A o \in DOMAIN st.dict : KeyOrder(o) <= KeyOrder(k)
         IN [st EXCEPT
                !.proc[name] = st.dict[last],
                !.dict = [k \in DOMAIN st.dict \ {last} |-> st.dict[k]]]

\* Variant: the layer reads its entry and leaves it in the dict
\* (processor[f"{name}.processor"] instead of processor.pop(...)).
SetProcessorStep_NoPop(name, arg, st) ==
    IF ~IsAttention(name) THEN st
    ELSE IF ~arg.isDict THEN [st EXCEPT !.proc[name] = arg.obj]
    ELSE IF ProcessorKey(name) \notin DOMAIN st.dict
        THEN [st EXCEPT !.raised = "KeyError"]
    ELSE [st EXCEPT !.proc[name] = st.dict[ProcessorKey(name)]]

\* The set_processor step of fn_recursive_attn_processor on one module.
\* st = [proc, dict, raised, reported]: the processors, the caller's dict, the
\* exception, and the mapping attn_processors returned at the start of the call.
SetProcessorStep(name, arg, st) ==
    IF ~IsAttention(name) THEN st
    ELSE IF ~arg.isDict THEN [st EXCEPT !.proc[name] = arg.obj]
    ELSE IF ProcessorKey(name) \notin DOMAIN st.dict
        THEN [st EXCEPT !.raised = "KeyError"]
    ELSE [st EXCEPT
             !.proc[name] = st.dict[ProcessorKey(name)],
             !.dict = [k \in DOMAIN st.dict \ {ProcessorKey(name)} |-> st.dict[k]]]

RECURSIVE fn_recursive_attn_processor(_, _, _), SetChildren(_, _, _, _)

\* An exception raised in st propagates: nothing after it runs.
fn_recursive_attn_processor(name, arg, st) ==
    IF st.raised # "none" THEN st
    ELSE SetChildren(name, NamedChildren(name), arg, SetProcessorStep(name, arg, st))

SetChildren(name, subs, arg, st) ==
    IF subs = <<>> \/ st.raised # "none" THEN st
    ELSE SetChildren(name, Tail(subs), arg,
             fn_recursive_attn_processor(Append(name, Head(subs)), arg, st))

\* The whole call: the state after it returns or raises.
set_attn_processor(arg) ==
    LET reported == attn_processors
        count == Cardinality(DOMAIN reported)
        st0 == [proc |-> processor,
                dict |-> IF arg.isDict THEN arg.dict ELSE <<>>,
                raised |-> "none",
                reported |-> reported]
    IN IF SizeMismatch(arg, count)
           THEN [st0 EXCEPT !.raised = "ValueError"]
           ELSE SetChildren(<<>>, ModelChildren, arg, st0)

---------------------------------------------------------------------------
\* Inputs of set_attn_processor.

\* Processor objects a caller supplies.
Procs == { <<"P", IndexNames[i]>> : i \in 1..NumProcs }

ProcSeq == [i \in 1..NumProcs |-> <<"P", IndexNames[i]>>]

\* The processors installed by SanaTransformerBlock.__init__.
DefaultProc(name) ==
    IF name[3] = "attn1" THEN <<"SanaLinearAttnProcessor2_0", "0">>
    ELSE <<"AttnProcessor2_0", "0">>

\* Key sets: the model's keys, with at most one key dropped and at most the
\* foreign key added (right and wrong sizes, right and wrong keys).
KeySets ==
    LET exact == DOMAIN attn_processors
    IN {exact, exact \cup {ForeignKey}, {}}
       \cup { exact \ {k} : k \in exact }
       \cup { (exact \ {k}) \cup {ForeignKey} : k \in exact }

\* Neighbouring keys get different processor objects; g shifts the choice.
DictOf(ks, g) == [k \in ks |-> ProcSeq[((KeyOrder(k) + g) % NumProcs) + 1]]

NoProc == <<"", "">>

ArgUniverse ==
    { [isDict |-> FALSE, obj |-> p, dict |-> <<>>] : p \in Procs }
    \cup { [isDict |-> TRUE, obj |-> NoProc, dict |-> DictOf(ks, g)] :
             ks \in KeySets, g \in {0, 1} }

---------------------------------------------------------------------------
\* Tensors: [none, shape, data], data in row-major order.

NoneTensor == [none |-> TRUE, shape |-> <<>>, data |-> <<>>]

\* gradient_checkpointing_interval = None
NoneInterval == [none |-> TRUE, v |-> 0]

Tensor(shape, data) == [none |-> FALSE, shape |-> shape, data |-> data]

RECURSIVE Prod(_)
Prod(s) == IF s = <<>> THEN 1 ELSE Head(s) * Prod(Tail(s))

\* torch.Tensor.reshape; one entry of shape may be -1.
Reshape(t, shape) ==
    LET known == Prod([i \in 1..Len(shape) |-> IF shape[i] = -1 THEN 1 ELSE shape[i]])
        full == [i \in 1..Len(shape) |->
                    IF shape[i] = -1 THEN Len(t.data) \div known ELSE shape[i]]
    IN Tensor(full, t.data)

\* Row-major strides of a shape.
Strides(shape) ==
    [d \in 1..Len(shape) |-> Prod(SubSeq(shape, d + 1, Len(shape)))]

\* torch.Tensor.permute; dims are 0-based as in the source.  Axis i of the
\* result is axis dims[i] of t: the element at multi-index J of the result is
\* the element of t whose index along dims[i] is J[i].
RECURSIVE PermuteOffset(_, _, _, _, _, _)
PermuteOffset(k, i, dims, newshape, newstr, oldstr) ==
    IF i > Len(dims) THEN 0
    ELSE ((k \div newstr[i]) % newshape[i]) * oldstr[dims[i] + 1]
         + PermuteOffset(k, i + 1, dims, newshape, newstr, oldstr)

Permute(t, dims) ==
    LET newshape == [i \in 1..Len(dims) |-> t.shape[dims[i] + 1]]
        newstr == Strides(newshape)
        oldstr == Strides(t.shape)
    IN Tensor(newshape,
              [k \in 1..Len(t.data) |->
                  t.data[PermuteOffset(k - 1, 1, dims, newshape, newstr, oldstr) + 1]])

\* torch.Tensor.unsqueeze(dim), dim 0-based.
Unsqueeze(t, dim) ==
    Tensor([i \in 1..(Len(t.shape) + 1) |->
               IF i <= dim THEN t.shape[i]
               ELSE IF i = dim + 1 THEN 1 ELSE t.shape[i - 1]],
           t.data)

---------------------------------------------------------------------------
\* forward: mask conversion.

DiscardBias == -10000

\* Floating-point dtypes of hidden_states.
Dtypes == {"float64", "float32", "float16", "bfloat16"}

\* Bits of the significand of a dtype (the implicit leading bit included).
SignificandBits(dtype) ==
    CASE dtype = "float64" -> 53
      [] dtype = "float32" -> 24
      [] dtype = "float16" -> 11
      [] dtype = "bfloat16" -> 8

\* The value of dtype nearest to the integer x (ties to even).  The integers
\* of the model are below 2^31: a wider significand holds each of them, and
\* none reaches the largest finite value of a dtype.
RoundTo(x, dtype) ==
    LET bits == SignificandBits(dtype)
        a == IF x < 0 THEN -x ELSE x
    IN IF bits >= 31 THEN x
       ELSE IF a < 2 ^ bits THEN x
       ELSE LET e == CHOOSE n \in bits..30 : 2 ^ n <= a /\ a \div 2 < 2 ^ n
                ulp == 2 ^ (e - bits + 1)
                q == a \div ulp
                r == a % ulp
                up == 2 * r > ulp \/ (2 * r = ulp /\ q % 2 = 1)
                m == (IF up THEN q + 1 ELSE q) * ulp
            IN IF x < 0 THEN -m ELSE m

\* if mask is not None and mask.ndim == 2:
\*     mask = (1 - mask.to(hidden_states.dtype)) * -10000.0; mask = mask.unsqueeze(1)
\* The product is a tensor of hidden_states' dtype.  The sign of a zero is not
\* represented: -0.0 and 0.0 are the same number.
MaskToBias(mask, dtype) ==
    IF ~mask.none /\ Len(mask.shape) = 2
        THEN Unsqueeze(
                 Tensor(mask.shape,
                        [k \in 1..Len(mask.data) |->
                            RoundTo(RoundTo(1 - RoundTo(mask.data[k], dtype), dtype)
                                    * DiscardBias, dtype)]),
                 1)
        ELSE mask

---------------------------------------------------------------------------
\* SanaTransformerBlock.forward.
\* The value of hidden_states is its history: one entry per sub-layer applied,
\* with the operands that sub-layer was given.

Entry(op, block, proc, mask, height, width) ==
    [op |-> op, block |-> block, proc |-> proc, mask |-> mask,
     height |-> height, width |-> width]

\* Attributes SanaTransformerBlock.__init__ assigns.
BlockAttrs ==
    {"norm1", "attn1", "ff", "scale_shift_table"}
    \cup (IF config.cross_attention THEN {"norm2", "attn2"} ELSE {})

BlockPath(i, a) == <<"transformer_blocks", IndexNames[i], a>>

\* a = [hidden, attention_mask, encoder_attention_mask, height, width].
\* Reading an attribute __init__ never assigned raises AttributeError.
SanaTransformerBlock_forward(i, a) ==
    LET h1 == Append(a.hidden,
                  Entry("self_attention", i, processor[BlockPath(i, "attn1")],
                        NoneTensor, 0, 0))
    IN IF "attn2" \notin BlockAttrs
           THEN [raised |-> "AttributeError", hidden |-> h1]
       ELSE LET h2 == Append(h1,
                          Entry("cross_attention", i, processor[BlockPath(i, "attn2")],
                                a.encoder_attention_mask, 0, 0))
            IN IF "norm2" \notin BlockAttrs
                   THEN [raised |-> "AttributeError", hidden |-> h2]
               ELSE [raised |-> "none",
                     hidden |-> Append(h2,
                         Entry("feed_forward", i, NoProc, NoneTensor,
                               a.height, a.width))]

---------------------------------------------------------------------------
\* Gradient checkpointing.

\* if hasattr(module, "gradient_checkpointing"): module.gradient_checkpointing = value
SetGradientCheckpointing(attr, value) ==
    IF attr # "absent" THEN value ELSE attr

\* The policy condition of create_block_forward.
\* self = [gradient_checkpointing, gradient_checkpointing_interval, block_gc]:
\* the attributes of the model that forward reads.
IntervalPolicy(self) ==
    /\ ~self.gradient_checkpointing_interval.none
    /\ self.gradient_checkpointing_interval.v > 0
    /\ self.gradient_checkpointing

\* Variant: a block is checkpointed only when an interval has been set.
create_block_forward_NeedsInterval(self, i, gcs, grad) ==
    [block_gc |-> IF IntervalPolicy(self)
                      THEN [gcs EXCEPT ![i] = SetGradientCheckpointing(gcs[i],
                                                  "timestep % interval == 0")]
                      ELSE gcs,
     checkpoint |-> grad /\ self.gradient_checkpointing
                    /\ ~self.gradient_checkpointing_interval.none,
     target |-> i]

\* Variant: under the interval policy the callable runs another block.
create_block_forward_IntervalTarget(self, i, gcs, grad) ==
    [block_gc |-> IF IntervalPolicy(self)
                      THEN [gcs EXCEPT ![i] = SetGradientCheckpointing(gcs[i],
                                                  "timestep % interval == 0")]
                      ELSE gcs,
     checkpoint |-> grad /\ self.gradient_checkpointing,
     target |-> IF IntervalPolicy(self)
                    THEN ((i - 1) % self.gradient_checkpointing_interval.v) + 1
                    ELSE i]

\* create_block_forward(block) for block i: the block attributes after it and
\* the callable it returns (checkpoint: wrapped in torch.utils.checkpoint;
\* target: the block the callable runs).
create_block_forward(self, i, gcs, grad) ==
    [block_gc |-> IF IntervalPolicy(self)
                      THEN [gcs EXCEPT ![i] = SetGradientCheckpointing(gcs[i],
                                                  "timestep % interval == 0")]
                      ELSE gcs,
     checkpoint |-> grad /\ self.gradient_checkpointing,
     target |-> i]

---------------------------------------------------------------------------
\* SanaTransformer2DModel.forward.

\* Tokens PatchEmbed yields: a p-by-p convolution of stride p, flattened.
PatchEmbedTokens(height, width) ==
    (height \div config.patch_size) * (width \div config.patch_size)

\* for block in self.transformer_blocks: hidden_states = create_block_forward(block)(...)
\* st = [hidden, block_gc, calls, raised]; ctx holds the loop-invariant arguments.
RECURSIVE RunBlocks(_, _, _, _)
RunBlocks(self, i, st, ctx) ==
    IF i > config.num_layers \/ st.raised # "none" THEN st
    ELSE LET f == create_block_forward(self, i, st.block_gc, ctx.grad)
             r == SanaTransformerBlock_forward(f.target,
                      [hidden |-> st.hidden,
                       attention_mask |-> ctx.attention_mask,
                       encoder_attention_mask |-> ctx.encoder_attention_mask,
                       height |-> ctx.height, width |-> ctx.width])
         IN RunBlocks(self, i + 1,
                [hidden |-> r.hidden,
                 block_gc |-> f.block_gc,
                 calls |-> Append(st.calls,
                     [block |-> f.target, checkpoint |-> f.checkpoint,
                      hidden |-> st.hidden,
                      attention_mask |-> ctx.attention_mask,
                      encoder_attention_mask |-> ctx.encoder_attention_mask,
                      height |-> ctx.height, width |-> ctx.width]),
                 raised |-> r.raised],
                ctx)

\* Variant: the final reshape leaves the height in patches.
Unpatchify_UnscaledHeight(proj, batch_size, post_patch_height, post_patch_width) ==
    LET p == config.patch_size
        r1 == Reshape(proj, <<batch_size, post_patch_height, post_patch_width, p, p, -1>>)
        r2 == Permute(r1, <<0, 5, 1, 3, 2, 4>>)
    IN Reshape(r2, <<batch_size, -1, post_patch_height, post_patch_width * p>>)

\* Variant: the two in-patch axes are exchanged, permute(0, 5, 1, 4, 2, 3).
Unpatchify_SwapPatchAxes(proj, batch_size, post_patch_height, post_patch_width) ==
    LET p == config.patch_size
        r1 == Reshape(proj, <<batch_size, post_patch_height, post_patch_width, p, p, -1>>)
        r2 == Permute(r1, <<0, 5, 1, 4, 2, 3>>)
    IN Reshape(r2, <<batch_size, -1, post_patch_height * p, post_patch_width * p>>)

\* 5. Unpatchify: reshape, permute(0, 5, 1, 3, 2, 4), reshape.
Unpatchify(proj, batch_size, post_patch_height, post_patch_width) ==
    LET p == config.patch_size
        r1 == Reshape(proj, <<batch_size, post_patch_height, post_patch_width, p, p, -1>>)
        r2 == Permute(r1, <<0, 5, 1, 3, 2, 4>>)
    IN Reshape(r2, <<batch_size, -1, post_patch_height * p, post_patch_width * p>>)

\* The output of proj_out: [batch, tokens, p*p*out_channels]; each element is
\* identified by its row-major position.
ProjOut(batch_size, tokens) ==
    LET f == config.patch_size * config.patch_size * config.out_channels
    IN Tensor(<<batch_size, tokens, f>>, [k \in 1..(batch_size * tokens * f) |-> k])

NoInput ==
    [batch |-> 0, height |-> 0, width |-> 0, dtype |-> "float32",
     attention_mask |-> NoneTensor, encoder_attention_mask |-> NoneTensor,
     grad |-> FALSE]

NoRun ==
    [valid |-> FALSE, inp |-> NoInput, gc |-> FALSE, interval |-> NoneInterval,
     raised |-> "none", calls |-> <<>>, tokens |-> 0, features |-> 0,
     value |-> <<>>, output |-> NoneTensor, block_gc |-> <<>>]

\* The whole of forward on input inp.
forward(self, inp) ==
    LET attention_mask == MaskToBias(inp.attention_mask, inp.dtype)
        encoder_attention_mask == MaskToBias(inp.encoder_attention_mask, inp.dtype)
        batch_size == inp.batch
        p == config.patch_size
        post_patch_height == inp.height \div p
        post_patch_width == inp.width \div p
        tokens == PatchEmbedTokens(inp.height, inp.width)
        embedded == <<Entry("patch_embed", 0, NoProc, NoneTensor, inp.height, inp.width)>>
        st == RunBlocks(self, 1,
                  [hidden |-> embedded, block_gc |-> self.block_gc, calls |-> <<>>,
                   raised |-> "none"],
                  [grad |-> inp.grad, attention_mask |-> attention_mask,
                   encoder_attention_mask |-> encoder_attention_mask,
                   height |-> post_patch_height, width |-> post_patch_width])
        proj == ProjOut(batch_size, tokens)
        done == st.raised = "none"
    IN [valid |-> TRUE, inp |-> inp, gc |-> self.gradient_checkpointing,
        interval |-> self.gradient_checkpointing_interval,
        raised |-> st.raised, calls |-> st.calls,
        tokens |-> tokens,
        features |-> IF done THEN proj.shape[3] ELSE 0,
        value |-> IF done
                      THEN st.hidden \o
                           <<Entry("norm_out_modulate", 0, NoProc, NoneTensor, 0, 0),
                             Entry("proj_out", 0, NoProc, NoneTensor, 0, 0)>>
                      ELSE st.hidden,
        output |-> IF done
                       THEN Unpatchify(proj, batch_size, post_patch_height,
                                       post_patch_width)
                       ELSE NoneTensor,
        block_gc |-> st.block_gc]

---------------------------------------------------------------------------
\* Actions of the forward pass and of the checkpointing settings.

\* The attributes of the model as they are now.
Self ==
    [gradient_checkpointing |-> gradient_checkpointing,
     gradient_checkpointing_interval |-> gradient_checkpointing_interval,
     block_gc |-> block_gc]

Forward(inp) ==
    LET r == forward(Self, inp)
    IN /\ lastRun' = r
       /\ block_gc' = r.block_gc
       /\ UNCHANGED <<config, processor, gradient_checkpointing,
                      gradient_checkpointing_interval, callerDict, lastSet, lastRead>>

\* model.set_gradient_checkpointing_interval(n)
SetGradientCheckpointingInterval ==
    \E n \in (-1)..MaxInterval :
        /\ gradient_checkpointing_interval' = [none |-> FALSE, v |-> n]
        /\ UNCHANGED <<config, processor, gradient_checkpointing, block_gc,
                       callerDict, lastSet, lastRead, lastRun>>

\* _set_gradient_checkpointing(module, value) applied to the model and its
\* blocks (enable_gradient_checkpointing / disable_gradient_checkpointing).
ApplyGradientCheckpointing(value) ==
    /\ gradient_checkpointing' = value
    /\ block_gc' = [i \in DOMAIN block_gc |->
                       SetGradientCheckpointing(block_gc[i],
                           IF value THEN "True" ELSE "False")]
    /\ UNCHANGED <<config, processor, gradient_checkpointing_interval,
                   callerDict, lastSet, lastRead, lastRun>>

EnableGradientCheckpointing == ApplyGradientCheckpointing(TRUE)

DisableGradientCheckpointing == ApplyGradientCheckpointing(FALSE)

---------------------------------------------------------------------------
\* Construction.

Configs(layers, cross, patches, channels) ==
    [num_layers : layers, cross_attention : cross,
     patch_size : patches, out_channels : channels]

NoSet ==
    [kind |-> "none", obj |-> NoProc, dict |-> <<>>, before |-> <<>>,
     reported |-> <<>>, raised |-> "none", again |-> FALSE, prior |-> "none"]

\* SanaTransformer2DModel.__init__ with the given constructor arguments.
Construct(cfg) ==
    /\ config = cfg
    /\ processor =
         [name \in { <<"transformer_blocks", IndexNames[i], a>> :
                       i \in 1..cfg.num_layers,
                       a \in (IF cfg.cross_attention THEN {"attn1", "attn2"}
                              ELSE {"attn1"}) }
            |-> DefaultProc(name)]
    /\ gradient_checkpointing = FALSE
    /\ gradient_checkpointing_interval = NoneInterval
    /\ block_gc = [i \in 1..cfg.num_layers |-> "absent"]
    /\ callerDict = <<>>
    /\ lastSet = NoSet
    /\ lastRead = <<>>
    /\ lastRun = NoRun

---------------------------------------------------------------------------
\* Actions of the attention-processor interface.

\* model.set_attn_processor(arg): line 374 reads attn_processors, then the
\* size check, then the recursive replacement; an exception leaves whatever
\* was replaced before it in place.
\* again: the argument is the dict object the previous call was given, as that
\* call left it; prior: the exception of that previous call.
CallSetAttnProcessor(arg, again) ==
    LET st == set_attn_processor(arg)
    IN /\ processor' = st.proc
       /\ callerDict' = st.dict
       /\ lastRead' = st.reported
       /\ lastSet' = [kind |-> IF arg.isDict THEN "dict" ELSE "single",
                      obj |-> arg.obj, dict |-> arg.dict,
                      before |-> processor, reported |-> st.reported,
                      raised |-> st.raised, again |-> again,
                      prior |-> IF again THEN lastSet.raised ELSE "none"]
       /\ UNCHANGED <<config, gradient_checkpointing,
                      gradient_checkpointing_interval, block_gc, lastRun>>

SetAttnProcessor ==
    \E arg \in ArgUniverse : CallSetAttnProcessor(arg, FALSE)

\* model.set_attn_processor(d) with the same dict object d as the previous
\* call: the entries that call popped are gone from it.
SetAttnProcessorAgain ==
    /\ lastSet.kind = "dict"
    /\ CallSetAttnProcessor([isDict |-> TRUE, obj |-> NoProc, dict |-> callerDict],
                            TRUE)

\* model.attn_processors: builds and returns a new dict.
ReadAttnProcessors ==
    /\ lastRead' = attn_processors
    /\ UNCHANGED <<config, processor, gradient_checkpointing,
                   gradient_checkpointing_interval, block_gc, callerDict,
                   lastSet, lastRun>>

---------------------------------------------------------------------------
\* Inputs of forward.

\* A [batch, key_tokens] mask (1 = keep, 0 = discard): row b keeps its first
\* keep[b] tokens.
PaddingMask(batch, key_tokens, keep) ==
    Tensor(<<batch, key_tokens>>,
           [k \in 1..(batch * key_tokens) |->
               IF ((k - 1) % key_tokens) < keep[((k - 1) \div key_tokens) + 1]
                   THEN 1 ELSE 0])

Masks2D(batch) ==
    { PaddingMask(batch, MaxKeyTokens, keep) :
        keep \in [1..batch -> 0..MaxKeyTokens] }

\* Masks that are already a bias: [batch, 1, key_tokens] and
\* [batch, 1, 1, key_tokens] with entries 0 and -10000.
MasksND(batch) ==
    { Tensor(<<batch, 1, MaxKeyTokens>>,
             [k \in 1..(batch * MaxKeyTokens) |-> IF k % 2 = 0 THEN DiscardBias ELSE 0]),
      Tensor(<<batch, 1, 1, MaxKeyTokens>>,
             [k \in 1..(batch * MaxKeyTokens) |-> IF k % 2 = 1 THEN DiscardBias ELSE 0]) }

MaskInputs(batch) == {NoneTensor} \cup Masks2D(batch) \cup MasksND(batch)

\* hidden_states of shape [batch, channels, height, width] and of dtype dtype,
\* the two masks, and torch.is_grad_enabled().
Input(batch, height, width, dtype, am, eam, grad) ==
    [batch |-> batch, height |-> height, width |-> width, dtype |-> dtype,
     attention_mask |-> am, encoder_attention_mask |-> eam, grad |-> grad]

---------------------------------------------------------------------------
\* Specifications.

\* The attention-processor interface.
InitAttn ==
    \E cfg \in Configs(0..MaxAttnLayers, BOOLEAN, {1}, {1}) : Construct(cfg)

NextAttn == SetAttnProcessor \/ SetAttnProcessorAgain \/ ReadAttnProcessors

SpecAttn == InitAttn /\ [][NextAttn]_vars

\* Forward passes under the gradient-checkpointing settings.
InitCkpt ==
    \E cfg \in Configs(0..MaxLayers, BOOLEAN, {1}, {1}) : Construct(cfg)

ForwardCkpt ==
    \E grad \in BOOLEAN, am \in {NoneTensor} \cup Masks2D(1) :
        Forward(Input(1, config.patch_size, config.patch_size, "float32", am,
                      NoneTensor, grad))

NextCkpt ==
    \/ SetGradientCheckpointingInterval
    \/ EnableGradientCheckpointing
    \/ DisableGradientCheckpointing
    \/ ForwardCkpt

SpecCkpt == InitCkpt /\ [][NextCkpt]_vars

\* One forward pass over the mask inputs.  forward keeps nothing from one call
\* to the next (the blocks have no attribute the interval policy could set),
\* so each behaviour applies it once to the inputs drawn for it.
InitMask ==
    \E cfg \in Configs(1..MaxLayers, BOOLEAN, {1}, {1}) : Construct(cfg)

ForwardMask ==
    /\ ~lastRun.valid
    /\ \E batch \in 1..MaxBatch, dtype \in Dtypes :
        \E am \in MaskInputs(batch), eam \in MaskInputs(batch) :
            Forward(Input(batch, config.patch_size, config.patch_size, dtype,
                          am, eam, TRUE))

NextMask == ForwardMask

SpecMask == InitMask /\ [][NextMask]_vars

\* One forward pass over the input sizes.
InitShape ==
    \E cfg \in Configs(0..MaxLayers, BOOLEAN, 1..MaxPatch, 1..MaxChannels) : Construct(cfg)

ForwardShape ==
    /\ ~lastRun.valid
    /\ \E batch \in 1..MaxBatch,
          height \in config.patch_size..MaxDim,
          width \in config.patch_size..MaxDim :
        Forward(Input(batch, height, width, "float32", NoneTensor, NoneTensor, TRUE))

NextShape == ForwardShape

SpecShape == InitShape /\ [][NextShape]_vars

---------------------------------------------------------------------------
\* Claims about set_attn_processor and attn_processors (SpecAttn).

\* Every attention layer holds the processor the last call supplied for it.
AllInstalled ==
    \A name \in DOMAIN processor :
        IF lastSet.kind = "single"
            THEN processor[name] = lastSet.obj
            ELSE /\ ProcessorKey(name) \in DOMAIN lastSet.dict
                 /\ processor[name] = lastSet.dict[ProcessorKey(name)]

\* C1: set_attn_processor is atomic for any argument: after the call returns
\* or raises, either every attention layer holds the processor supplied for
\* its path or no layer's processor has changed.
C1_SetIsAtomic ==
    lastSet.kind # "none" => (AllInstalled \/ processor = lastSet.before)

\* The last call was given a dict whose size is not the number of layers
\* attn_processors reported.
WrongSizeDict ==
    /\ lastSet.kind = "dict"
    /\ Cardinality(DOMAIN lastSet.dict) # Cardinality(DOMAIN lastSet.reported)

\* C2: a dict whose number of entries differs from the number of attention
\* layers fails with ValueError before any layer is replaced; attn_processors
\* after the failed call equals the mapping before it.
C2_WrongSizeRejected ==
    WrongSizeDict =>
        /\ lastSet.raised = "ValueError"
        /\ processor = lastSet.before
        /\ attn_processors = lastSet.reported

\* A wrong-size, non-empty dict was rejected on a model whose layers had
\* already been given other processors.
C2_Witness ==
    /\ WrongSizeDict
    /\ lastSet.raised = "ValueError"
    /\ lastSet.dict # <<>>
    /\ \E name \in DOMAIN processor : processor[name] \in Procs
    /\ \E k \in DOMAIN lastSet.dict :
           k \in DOMAIN lastSet.reported /\ lastSet.dict[k] # lastSet.reported[k]

\* The last call was given a dict with exactly one entry per reported key.
ExactDict ==
    /\ lastSet.kind = "dict"
    /\ DOMAIN lastSet.dict = DOMAIN lastSet.reported

\* C3: a dict with exactly one entry per key of attn_processors is routed by
\* path: afterwards attn_processors[k] is the object supplied under k, every
\* key is '<module path>.processor' of the layer that holds the object, and
\* the set of paths is unchanged; a single processor is installed on every path.
C3_RoutesByPath ==
    /\ ExactDict =>
           /\ lastSet.raised = "none"
           /\ DOMAIN attn_processors = DOMAIN lastSet.reported
           /\ \A k \in DOMAIN attn_processors :
                  /\ attn_processors[k] = lastSet.dict[k]
                  /\ k[Len(k)] = "processor"
                  /\ SubSeq(k, 1, Len(k) - 1) \in DOMAIN processor
                  /\ processor[SubSeq(k, 1, Len(k) - 1)] = lastSet.dict[k]
    /\ lastSet.kind = "single" =>
           /\ lastSet.raised = "none"
           /\ DOMAIN attn_processors = DOMAIN lastSet.reported
           /\ \A k \in DOMAIN attn_processors : attn_processors[k] = lastSet.obj

\* A dict of two different processors was routed to two layers and changed both.
C3_Witness ==
    /\ ExactDict
    /\ lastSet.raised = "none"
    /\ \E k1, k2 \in DOMAIN lastSet.dict :
           /\ lastSet.dict[k1] # lastSet.dict[k2]
           /\ attn_processors[k1] # lastSet.reported[k1]
           /\ attn_processors[k2] # lastSet.reported[k2]

\* The last call was given a dict and returned, on a model with at least one
\* attention layer.
DictConsumed ==
    /\ lastSet.kind = "dict"
    /\ lastSet.raised = "none"
    /\ DOMAIN processor # {}

\* The last call was given the dict object of a call that had returned, on a
\* model with at least one attention layer.
ReusedAfterSuccess ==
    /\ lastSet.again
    /\ lastSet.prior = "none"
    /\ DOMAIN processor # {}

\* A read of attn_processors returns the current mapping and changes neither
\* a layer's processor nor the caller's dict.
ReadIsPure ==
    ReadAttnProcessors =>
        /\ processor' = processor
        /\ callerDict' = callerDict
        /\ lastRead' = attn_processors'
        /\ DOMAIN lastRead' = { ProcessorKey(name) : name \in DOMAIN processor }

\* C11: set_attn_processor consumes the caller's dict: after a successful call
\* with a dict on a model with at least one attention layer the dict object is
\* empty; a second call with the same dict object fails with the size-mismatch
\* ValueError and leaves the processors the first call installed in place;
\* reading attn_processors never changes any layer's processor.
C11_DictConsumed ==
    /\ [](DictConsumed => callerDict = <<>>)
    /\ [](ReusedAfterSuccess =>
             /\ lastSet.dict = <<>>
             /\ lastSet.raised = "ValueError"
             /\ processor = lastSet.before
             /\ \A name \in DOMAIN processor : processor[name] \in Procs)
    /\ [][ReadIsPure]_vars

\* The dict object of a call that installed caller-supplied processors was
\* handed in again and rejected, and attn_processors was read afterwards.
C11_Witness ==
    /\ ReusedAfterSuccess
    /\ lastSet.raised = "ValueError"
    /\ callerDict = <<>>
    /\ \E name \in DOMAIN processor : processor[name] \in Procs
    /\ lastRead = attn_processors

---------------------------------------------------------------------------
\* Claims about the blocks and gradient checkpointing (SpecCkpt).

\* The sub-layers block i applied in the last forward, in order.
BlockSteps(i) ==
    LET idx == { k \in 1..Len(lastRun.value) : lastRun.value[k].block = i }
        nth(n) == CHOOSE k \in idx : Cardinality({ j \in idx : j <= k }) = n
    IN [n \in 1..Cardinality(idx) |-> lastRun.value[nth(n)].op]

\* C4: with cross-attention disabled (cross_attention_dim is None) forward
\* completes without error and returns a correctly shaped output, each block
\* applying only the self-attention and feed-forward residuals.
C4_CrossAttentionOptional ==
    (lastRun.valid /\ ~config.cross_attention) =>
        /\ lastRun.raised = "none"
        /\ lastRun.output.shape =
               <<lastRun.inp.batch, config.out_channels,
                 lastRun.inp.height, lastRun.inp.width>>
        /\ \A i \in 1..config.num_layers :
               BlockSteps(i) = <<"self_attention", "feed_forward">>

\* Some block of the run was checkpointed while another ran eagerly.
MixedRun(r) ==
    \E c1, c2 \in 1..Len(r.calls) :
        r.calls[c1].checkpoint /\ ~r.calls[c2].checkpoint

\* An input of the smallest size, with gradients enabled or not.
SmallInput(grad) ==
    Input(1, config.patch_size, config.patch_size, "float32", NoneTensor,
          NoneTensor, grad)

WithInterval(self, interval) ==
    [self EXCEPT !.gradient_checkpointing_interval = interval]

\* C5: with gradient checkpointing enabled and gradients enabled, the interval
\* determines how many blocks checkpoint: there are positive intervals for
\* which some blocks checkpoint while other blocks run eagerly.
C5_IntervalSelectsBlocks ==
    (gradient_checkpointing /\ config.cross_attention /\ config.num_layers >= 2) =>
        \E n \in 1..MaxInterval :
            MixedRun(forward(WithInterval(Self, [none |-> FALSE, v |-> n]),
                             SmallInput(TRUE)))

\* The last forward ran with the interval unset or <= 0.
PolicyOff ==
    /\ lastRun.valid
    /\ (lastRun.interval.none \/ lastRun.interval.v <= 0)

\* C6: with the interval unset or <= 0, every block is run through the
\* checkpoint wrapper when gradient_checkpointing is true and gradients are
\* enabled, and every block is run directly otherwise; all num_layers blocks
\* are run when no block raises.
C6_PolicyOffCheckpointsAll ==
    PolicyOff =>
        /\ \A c \in 1..Len(lastRun.calls) :
               /\ lastRun.calls[c].checkpoint = (lastRun.gc /\ lastRun.inp.grad)
               /\ lastRun.calls[c].block = c
        /\ lastRun.raised = "none" => Len(lastRun.calls) = config.num_layers

\* Two blocks were checkpointed in a completed run with the interval unset.
C6_Witness ==
    /\ PolicyOff
    /\ lastRun.interval.none
    /\ lastRun.gc /\ lastRun.inp.grad
    /\ lastRun.raised = "none"
    /\ Len(lastRun.calls) >= 2
    /\ \A c \in 1..Len(lastRun.calls) : lastRun.calls[c].checkpoint

\* The arguments of a block call, without the way the block was run.
CallArgs(c) ==
    [block |-> c.block, hidden |-> c.hidden, attention_mask |-> c.attention_mask,
     encoder_attention_mask |-> c.encoder_attention_mask,
     height |-> c.height, width |-> c.width]

IntervalValues ==
    {NoneInterval} \cup { [none |-> FALSE, v |-> n] : n \in (-1)..MaxInterval }

\* C7: for the same model and inputs, forward under any other interval (None,
\* <= 0 or positive) calls the same blocks with the same arguments in the
\* same order, returns the same output and fails exactly when this run failed.
C7_IntervalPreservesOutput ==
    lastRun.valid =>
        \A iv \in IntervalValues :
            LET other == forward(WithInterval(
                             [gradient_checkpointing |-> lastRun.gc,
                              gradient_checkpointing_interval |-> lastRun.interval,
                              block_gc |-> block_gc], iv),
                             lastRun.inp)
            IN /\ other.raised = lastRun.raised
               /\ other.value = lastRun.value
               /\ other.output = lastRun.output
               /\ Len(other.calls) = Len(lastRun.calls)
               /\ \A c \in 1..Len(lastRun.calls) :
                      CallArgs(other.calls[c]) = CallArgs(lastRun.calls[c])

\* A completed run of two blocks with the interval policy in force.
C7_Witness ==
    /\ lastRun.valid
    /\ lastRun.gc /\ lastRun.inp.grad
    /\ ~lastRun.interval.none /\ lastRun.interval.v > 0
    /\ lastRun.raised = "none"
    /\ Len(lastRun.calls) >= 2

---------------------------------------------------------------------------
\* Claim about the mask conversion (SpecMask).

\* c is what the blocks must receive for the mask m given to forward.
ConvertedAs(m, c) ==
    IF ~m.none /\ Len(m.shape) = 2
        THEN /\ ~c.none
             /\ c.shape = <<m.shape[1], 1, m.shape[2]>>
             /\ Len(c.data) = m.shape[1] * m.shape[2]
             /\ \A b \in 0..(m.shape[1] - 1), k \in 0..(m.shape[2] - 1) :
                    c.data[b * m.shape[2] + k + 1] =
                        (IF m.data[b * m.shape[2] + k + 1] = 1 THEN 0 ELSE -10000)
        ELSE c = m

\* C8: a 2-D 1/0 mask [batch, key_tokens] reaches every block, the first
\* included, as a bias [batch, 1, key_tokens] with 0 for keep and -10000 for
\* discard, by the same rule for attention_mask and encoder_attention_mask;
\* a mask of more than 2 dimensions, or None, reaches the blocks unchanged.
C8_MaskBecomesBias ==
    lastRun.valid =>
        /\ Len(lastRun.calls) >= 1
        /\ \A c \in 1..Len(lastRun.calls) :
               /\ ConvertedAs(lastRun.inp.attention_mask,
                              lastRun.calls[c].attention_mask)
               /\ ConvertedAs(lastRun.inp.encoder_attention_mask,
                              lastRun.calls[c].encoder_attention_mask)

---------------------------------------------------------------------------
\* Claims about the output shape and the unpatchify (SpecShape).

Divisible ==
    /\ lastRun.inp.height % config.patch_size = 0
    /\ lastRun.inp.width % config.patch_size = 0

\* C9: for height and width divisible by patch_size the token sequence has
\* length (height/p)*(width/p), proj_out gives p*p*out_channels features per
\* token and the tensor forward returns has shape
\* [batch, out_channels, height, width].
C9_OutputShape ==
    (lastRun.valid /\ Divisible) =>
        LET p == config.patch_size
        IN /\ lastRun.tokens * p * p = lastRun.inp.height * lastRun.inp.width
           /\ lastRun.raised = "none" =>
                  /\ lastRun.features = p * p * config.out_channels
                  /\ lastRun.output.shape =
                         <<lastRun.inp.batch, config.out_channels,
                           lastRun.inp.height, lastRun.inp.width>>
                  /\ Len(lastRun.output.data) =
                         lastRun.inp.batch * config.out_channels
                         * lastRun.inp.height * lastRun.inp.width

\* A returned output with several patches per side, patch_size 2, a
\* non-square input and more than one channel and batch item.
C9_Witness ==
    /\ lastRun.valid /\ Divisible
    /\ lastRun.raised = "none"
    /\ config.patch_size = 2 /\ config.out_channels = 2
    /\ lastRun.inp.batch = 2
    /\ lastRun.inp.height = 4 /\ lastRun.inp.width = 2
    /\ lastRun.output.shape = <<2, 2, 4, 2>>

\* C10: the unpatchify inverts the patch partition: output[b, c, h*p+i, w*p+j]
\* is the projected value of token h*W'+w at feature (i*p+j)*C+c, and the map
\* from (token, feature) to (channel, row, column) is a bijection.
C10_UnpatchifyInverts ==
    (lastRun.valid /\ Divisible /\ lastRun.raised = "none") =>
        LET p == config.patch_size
            C == config.out_channels
            B == lastRun.inp.batch
            H == lastRun.inp.height
            W == lastRun.inp.width
            Hp == H \div p
            Wp == W \div p
            out == lastRun.output.data
        IN /\ \A b \in 0..(B - 1), c \in 0..(C - 1), h \in 0..(Hp - 1),
                 w \in 0..(Wp - 1), i \in 0..(p - 1), j \in 0..(p - 1) :
                  out[((b * C + c) * H + (h * p + i)) * W + (w * p + j) + 1] =
                      (b * (Hp * Wp) + (h * Wp + w)) * (p * p * C)
                      + ((i * p + j) * C + c) + 1
           /\ { out[k] : k \in 1..Len(out) } = 1..(B * Hp * Wp * p * p * C)
           /\ Len(out) = B * Hp * Wp * p * p * C

\* An output of several patches per side, each larger than one element.
C10_Witness ==
    /\ lastRun.valid /\ Divisible
    /\ lastRun.raised = "none"
    /\ config.patch_size = 2 /\ config.out_channels = 2
    /\ lastRun.inp.batch = 2
    /\ lastRun.inp.height = 4 /\ lastRun.inp.width = 4
    /\ Len(lastRun.output.data) = 64

====
